---- MODULE Spec2Model ----
(***************************************************************************)
(* A model of the Pratt parser of clojurium (src/src/parser.rs): the token *)
(* cursor (current_token, peek_token over a lexer), the parse-rule table   *)
(* built by register_parsers, the precedence table, parse_expression and   *)
(* its prefix/infix rules, and the statement loop of parse_program.        *)
(*                                                                         *)
(* Strings are sequences of one-character strings, so that the conversion  *)
(* of an INT literal to an i32 is computed digit by digit.  A parser abort *)
(* (panic!, unwrap on Err) is the outcome "panicked" with the site that    *)
(* raised it.                                                              *)
(*                                                                         *)
(* The evaluator (src/src/evaluation/evaluator.rs) runs on the Program the *)
(* parser returned; the runtime objects (src/src/evaluation/object.rs) and *)
(* the built-in functions (src/src/core/funcs.rs) are operators applied by *)
(* the actions Call and PartialEq to arguments drawn from bounded sets.    *)
(***************************************************************************)
EXTENDS Integers, Sequences, FiniteSets, TLC

VARIABLES
    input,           \* the token sequence the lexer will deliver (fixed per run)
    lexer,           \* Parser.lexer: how many tokens of input it has delivered
    current_token,   \* Parser.current_token
    peek_token,      \* Parser.peek_token
    errors,          \* Parser.errors
    lambda_parsers,  \* the LambdaParsers table handed to parse_program
    program,         \* ast::Program.statements being built by parse_program
    pc,              \* where parse_program is
    stmt,            \* the statement a let/return loop is in the middle of
    panic,           \* the panic site when pc = "panicked"
    function_name,   \* core::funcs::call: the built-in's name
    args,            \* core::funcs::call: its arguments; the operands of ==
    object,          \* the Object returned by call or by eval
    equal            \* the bool returned by ==

vars == <<input, lexer, current_token, peek_token, errors, lambda_parsers,
          program, pc, stmt, panic, function_name, args, object, equal>>

(* the variables of the runtime: untouched by the parser *)
runtime == <<function_name, args, object, equal>>

(***************************************************************************)
(* Token kinds (crate::token).  Kinds that are TLA+ keywords carry the     *)
(* suffix _TOKEN.                                                          *)
(***************************************************************************)
IDENT == "IDENT"
INT == "INT"
STRING_TOKEN == "STRING"
ASSIGN == "="
PLUS == "+"
MINUS == "-"
BANG == "!"
ASTERISK == "*"
SLASH == "/"
LT == "<"
GT == ">"
EQ == "=="
NOT_EQ == "!="
COMMA == "COMMA"
SEMICOLON == "SEMICOLON"
LPAREN == "LPAREN"
RPAREN == "RPAREN"
LBRACE == "LBRACE"
RBRACE == "RBRACE"
LBRACKET == "LBRACKET"
RBRACKET == "RBRACKET"
FUNCTION == "FUNCTION"
LET_TOKEN == "LET"
TRUE_TOKEN == "TRUE"
FALSE_TOKEN == "FALSE"
IF_TOKEN == "IF"
ELSE_TOKEN == "ELSE"
RETURN == "RETURN"
EOF == "EOF"

TokenType ==
    { IDENT, INT, STRING_TOKEN, ASSIGN, PLUS, MINUS, BANG, ASTERISK, SLASH,
      LT, GT, EQ, NOT_EQ, COMMA, SEMICOLON, LPAREN, RPAREN, LBRACE, RBRACE,
      LBRACKET, RBRACKET, FUNCTION, LET_TOKEN, TRUE_TOKEN, FALSE_TOKEN,
      IF_TOKEN, ELSE_TOKEN, RETURN, EOF }

(* Precedence levels (crate::token), ascending. *)
LOWEST == 1
EQUALS == 2
LESSGREATER == 3
SUM == 4
PRODUCT == 5
PREFIX == 6
CALL == 7
INDEX == 8

(* token::Token *)
Token(token_type, literal) == [token_type |-> token_type, literal |-> literal]

EofToken == Token(EOF, <<>>)

(***************************************************************************)
(* PRECEDENCES and precedence_by_token_type                                *)
(***************************************************************************)
PRECEDENCES ==
    (EQ :> EQUALS) @@ (NOT_EQ :> EQUALS) @@
    (LT :> LESSGREATER) @@ (GT :> LESSGREATER) @@
    (PLUS :> SUM) @@ (MINUS :> SUM) @@
    (SLASH :> PRODUCT) @@ (ASTERISK :> PRODUCT)

(* a lookup that puts * and / on the level of + and - *)
precedence_by_token_type_flat(token_type) ==
    IF token_type \in DOMAIN PRECEDENCES
    THEN IF PRECEDENCES[token_type] = PRODUCT
         THEN SUM
         ELSE PRECEDENCES[token_type]
    ELSE LOWEST

precedence_by_token_type(token_type) ==
    IF token_type \in DOMAIN PRECEDENCES
    THEN PRECEDENCES[token_type]
    ELSE LOWEST

(***************************************************************************)
(* LambdaParsers: the two rule maps, from token kind to the rule's name.   *)
(***************************************************************************)
EmptyLambdaParsers == [prefix_parse_fns |-> <<>>, infix_parse_fns |-> <<>>]

register_prefix(lp, token_type, f) ==
    [lp EXCEPT !.prefix_parse_fns =
        (token_type :> f) @@ @]

register_infix(lp, token_type, f) ==
    [lp EXCEPT !.infix_parse_fns =
        (token_type :> f) @@ @]

(* a rule table that has no infix rule for GT *)
register_parsers_without_gt(lp) ==
    LET p1 == register_prefix(lp, IDENT, "identifier")
        p2 == register_prefix(p1, INT, "parse_int_literal")
        p3 == register_prefix(p2, BANG, "parse_prefix_expression")
        p4 == register_prefix(p3, MINUS, "parse_prefix_expression")
        p5 == register_prefix(p4, TRUE_TOKEN, "parse_boolean")
        p6 == register_prefix(p5, FALSE_TOKEN, "parse_boolean")
        p7 == register_prefix(p6, LPAREN, "parse_grouped_expressions")
        i1 == register_infix(p7, PLUS, "parse_infix_expression")
        i2 == register_infix(i1, MINUS, "parse_infix_expression")
        i3 == register_infix(i2, SLASH, "parse_infix_expression")
        i4 == register_infix(i3, ASTERISK, "parse_infix_expression")
        i5 == register_infix(i4, EQ, "parse_infix_expression")
        i6 == register_infix(i5, NOT_EQ, "parse_infix_expression")
        i7 == register_infix(i6, LT, "parse_infix_expression")
    IN  i7

register_parsers(lp) ==
    LET p1 == register_prefix(lp, IDENT, "identifier")
        p2 == register_prefix(p1, INT, "parse_int_literal")
        p3 == register_prefix(p2, BANG, "parse_prefix_expression")
        p4 == register_prefix(p3, MINUS, "parse_prefix_expression")
        p5 == register_prefix(p4, TRUE_TOKEN, "parse_boolean")
        p6 == register_prefix(p5, FALSE_TOKEN, "parse_boolean")
        p7 == register_prefix(p6, LPAREN, "parse_grouped_expressions")
        i1 == register_infix(p7, PLUS, "parse_infix_expression")
        i2 == register_infix(i1, MINUS, "parse_infix_expression")
        i3 == register_infix(i2, SLASH, "parse_infix_expression")
        i4 == register_infix(i3, ASTERISK, "parse_infix_expression")
        i5 == register_infix(i4, EQ, "parse_infix_expression")
        i6 == register_infix(i5, NOT_EQ, "parse_infix_expression")
        i7 == register_infix(i6, LT, "parse_infix_expression")
        i8 == register_infix(i7, GT, "parse_infix_expression")
    IN  i8

(***************************************************************************)
(* The lexer: delivers the tokens of input in order, then EOF forever.     *)
(***************************************************************************)
LexerNextToken(l) ==
    IF l < Len(input)
    THEN [token |-> input[l + 1], lexer |-> l + 1]
    ELSE [token |-> EofToken, lexer |-> l]

(***************************************************************************)
(* Parser: the record of its fields, new and next_token.                   *)
(***************************************************************************)
Parser(l, cur, peek, errs) ==
    [lexer |-> l, current_token |-> cur, peek_token |-> peek, errors |-> errs]

Self == Parser(lexer, current_token, peek_token, errors)

New ==
    LET t1 == LexerNextToken(0)
        t2 == LexerNextToken(t1.lexer)
    IN  Parser(t2.lexer, t1.token, t2.token, <<>>)

next_token(p) ==
    LET t == LexerNextToken(p.lexer)
    IN  [p EXCEPT !.current_token = p.peek_token,
                  !.peek_token = t.token,
                  !.lexer = t.lexer]

(* a parser that forgets to record the missing rule *)
register_no_prefix_parser_found_silent(p, token_type) == p

register_no_prefix_parser_found(p, token_type) ==
    [p EXCEPT !.errors =
        Append(@, <<"no prefix parser found for ", token_type, " token">>)]

(* a message that reports the current token instead of the peek token *)
peek_error_current(p, token) ==
    [p EXCEPT !.errors =
        Append(@, <<"expected next token to be ", token, ", got ",
                    p.current_token.token_type, " instead">>)]

peek_error(p, token) ==
    [p EXCEPT !.errors =
        Append(@, <<"expected next token to be ", token, ", got ",
                    p.peek_token.token_type, " instead">>)]

(***************************************************************************)
(* Expressions (token::Expression) and the outcome of a parse rule: the    *)
(* parser after the rule, the value it returned (None for Option::None)    *)
(* and the panic site, NoPanic when it returned.                           *)
(***************************************************************************)
None == [node |-> "None"]

NoPanic == "none"

Identifier(token) ==
    [node |-> "Identifier", token |-> token, value |-> token.literal]

IntegerLiteral(token, value) ==
    [node |-> "IntegerLiteral", token |-> token, value |-> value]

Boolean(token, value) ==
    [node |-> "Boolean", token |-> token, value |-> value]

PrefixExpression(token, operator, right) ==
    [node |-> "PrefixExpression", token |-> token, operator |-> operator,
     right |-> right]

InfixExpression(token, left, operator, right) ==
    [node |-> "InfixExpression", token |-> token, left |-> left,
     operator |-> operator, right |-> right]

Returned(p, expr) == [p |-> p, expr |-> expr, panic |-> NoPanic]

Panicked(p, site) == [p |-> p, expr |-> None, panic |-> site]

(***************************************************************************)
(* str::parse::<i32>: an optional sign, then at least one decimal digit,   *)
(* accumulated with checked multiplication and addition (subtraction for a *)
(* negative literal).  The checks are written so that no intermediate      *)
(* value leaves the 32-bit range.                                          *)
(***************************************************************************)
I32_MAX == 2147483647

I32_MIN == -2147483647 - 1

DigitValue ==
    ("0" :> 0) @@ ("1" :> 1) @@ ("2" :> 2) @@ ("3" :> 3) @@ ("4" :> 4) @@
    ("5" :> 5) @@ ("6" :> 6) @@ ("7" :> 7) @@ ("8" :> 8) @@ ("9" :> 9)

RECURSIVE ParseDigits(_, _, _, _)
ParseDigits(s, i, acc, negative) ==
    IF i > Len(s)
    THEN [ok |-> TRUE, value |-> acc]
    ELSE IF s[i] \notin DOMAIN DigitValue
    THEN [ok |-> FALSE, value |-> 0]
    ELSE LET d == DigitValue[s[i]]
             overflow == IF negative
                         THEN acc < (I32_MIN + d + 9) \div 10
                         ELSE acc > (I32_MAX - d) \div 10
         IN  IF overflow
             THEN [ok |-> FALSE, value |-> 0]
             ELSE ParseDigits(s, i + 1,
                              IF negative THEN acc * 10 - d ELSE acc * 10 + d,
                              negative)

ParseI32(s) ==
    IF Len(s) = 0
    THEN [ok |-> FALSE, value |-> 0]
    ELSE IF s[1] \in {"+", "-"}
    THEN IF Len(s) = 1
         THEN [ok |-> FALSE, value |-> 0]
         ELSE ParseDigits(s, 2, 0, s[1] = "-")
    ELSE ParseDigits(s, 1, 0, FALSE)

(***************************************************************************)
(* The parse rules and parse_expression.                                   *)
(***************************************************************************)
RECURSIVE parse_expression(_, _, _)
RECURSIVE InfixLoop(_, _, _, _)
RECURSIVE PrefixParseFn(_, _)
RECURSIVE InfixParseFn(_, _, _)
RECURSIVE parse_prefix_expression(_)
RECURSIVE parse_infix_expression(_, _)
RECURSIVE parse_grouped_expressions(_)

(* "let x = v; F(x)": v is evaluated once and F gets its value *)
Bind(v, F(_)) == CHOOSE y \in { F(x) : x \in {v} } : TRUE

parse_identifier(p) == Returned(p, Identifier(p.current_token))

parse_int_literal(p) ==
    Bind(ParseI32(p.current_token.literal), LAMBDA integer :
        IF integer.ok
        THEN Returned(p, IntegerLiteral(p.current_token, integer.value))
        ELSE Panicked(p, "parse_int_literal"))

parse_boolean(p) ==
    Returned(p, Boolean(p.current_token,
                        p.current_token.token_type = TRUE_TOKEN))

parse_prefix_expression(p) ==
    LET token == p.current_token
        operator == p.current_token.literal
    IN  Bind(register_parsers(EmptyLambdaParsers), LAMBDA lp :
        Bind(next_token(p), LAMBDA p1 :
        Bind(parse_expression(p1, lp, PREFIX), LAMBDA r :
            IF r.panic # NoPanic
            THEN r
            ELSE IF r.expr = None
            THEN Panicked(r.p, "parse_prefix_expression")
            ELSE Returned(r.p, PrefixExpression(token, operator, r.expr)))))

parse_infix_expression(p, left) ==
    LET token == p.current_token
        operator == p.current_token.literal
        precedence == precedence_by_token_type(token.token_type)
    IN  Bind(register_parsers(EmptyLambdaParsers), LAMBDA lp :
        Bind(next_token(p), LAMBDA p1 :
        Bind(parse_expression(p1, lp, precedence), LAMBDA r :
            IF r.panic # NoPanic
            THEN r
            ELSE IF r.expr = None
            THEN Panicked(r.p, "parse_infix_expression")
            ELSE Returned(r.p,
                          InfixExpression(token, left, operator, r.expr)))))

parse_grouped_expressions(p) ==
    Bind(register_parsers(EmptyLambdaParsers), LAMBDA lp :
    Bind(next_token(p), LAMBDA p1 :
    Bind(parse_expression(p1, lp, LOWEST), LAMBDA r :
        IF r.panic # NoPanic
        THEN r
        ELSE IF r.expr = None
        THEN Panicked(r.p, "parse_grouped_expressions: no expression")
        ELSE IF r.p.peek_token.token_type # RPAREN
        THEN Panicked(r.p, "parse_grouped_expressions: expected )")
        ELSE Returned(next_token(r.p), r.expr))))

(* the call of a boxed prefix rule, by the name it was registered under *)
PrefixParseFn(f, p) ==
    CASE f = "identifier" -> parse_identifier(p)
      [] f = "parse_int_literal" -> parse_int_literal(p)
      [] f = "parse_boolean" -> parse_boolean(p)
      [] f = "parse_prefix_expression" -> parse_prefix_expression(p)
      [] f = "parse_grouped_expressions" -> parse_grouped_expressions(p)

(* the call of a boxed infix rule *)
InfixParseFn(f, p, left) ==
    CASE f = "parse_infix_expression" -> parse_infix_expression(p, left)

(* a loop condition that compares with <= instead of < *)
LoopCondition_nonstrict(p, precedence) ==
    /\ ~(p.peek_token.token_type = SEMICOLON)
    /\ precedence <= precedence_by_token_type(p.peek_token.token_type)

(* the condition of the while loop of parse_expression *)
LoopCondition(p, precedence) ==
    /\ ~(p.peek_token.token_type = SEMICOLON)
    /\ precedence < precedence_by_token_type(p.peek_token.token_type)

(* the while loop of parse_expression, entered with the prefix rule's value *)
InfixLoop(p, lp, precedence, left) ==
    IF LoopCondition(p, precedence)
    THEN LET peek_type == p.peek_token.token_type
         IN  Bind(next_token(p), LAMBDA p1 :
             IF peek_type \in DOMAIN lp.infix_parse_fns
             THEN Bind(InfixParseFn(lp.infix_parse_fns[peek_type], p1, left),
                       LAMBDA r :
                           IF r.panic # NoPanic
                           THEN r
                           ELSE InfixLoop(r.p, lp, precedence, r.expr))
             ELSE Panicked(p1, "parse_expression: no infix function"))
    ELSE Returned(p, left)

parse_expression(p, lp, precedence) ==
    LET token_type == p.current_token.token_type
    IN  IF token_type \in DOMAIN lp.prefix_parse_fns
        THEN Bind(PrefixParseFn(lp.prefix_parse_fns[token_type], p),
                  LAMBDA r :
                      IF r.panic # NoPanic
                      THEN r
                      ELSE InfixLoop(r.p, lp, precedence, r.expr))
        ELSE Returned(register_no_prefix_parser_found(p, token_type), None)

(***************************************************************************)
(* Statements (token::Statements) and the statement parsers.  The let and  *)
(* return parsers skip tokens in a while loop of their own; the part       *)
(* before the loop and the part after it are separate operators, and each  *)
(* iteration of the loop is a step of the model.                           *)
(***************************************************************************)
Dumb == <<"d", "u", "m", "b">>

LetStatement(token, name, value) ==
    [node |-> "LetStatement", token |-> token, name |-> name, value |-> value]

ReturnStatement(token, return_value) ==
    [node |-> "ReturnStatement", token |-> token,
     return_value |-> return_value]

ExpressionStatement(token, expression) ==
    [node |-> "ExpressionStatement", token |-> token,
     expression |-> expression]

(* parse_let_statement up to its while loop: stmt is None when it returned *)
(* None, and otherwise holds the token and the name bound so far           *)
parse_let_statement(p) ==
    LET token == p.current_token
    IN  IF p.peek_token.token_type # IDENT
        THEN [p |-> peek_error(p, IDENT), stmt |-> None]
        ELSE LET p1 == next_token(p)
                 name == [token |-> p1.current_token,
                          value |-> p1.current_token.literal]
             IN  IF p1.peek_token.token_type # ASSIGN
                 THEN [p |-> peek_error(p1, ASSIGN), stmt |-> None]
                 ELSE [p |-> next_token(p1),
                       stmt |-> LetStatement(token, name, Dumb)]

(* parse_return_statement up to its while loop *)
parse_return_statement(p) ==
    [p |-> next_token(p), stmt |-> ReturnStatement(p.current_token, Dumb)]

parse_expression_statement(p, lp) ==
    LET token == p.current_token
    IN  Bind(parse_expression(p, lp, LOWEST), LAMBDA r :
            IF r.panic # NoPanic
            THEN [p |-> r.p, stmt |-> None, panic |-> r.panic]
            ELSE IF r.expr = None
            THEN [p |-> r.p, stmt |-> None,
                  panic |-> "parse_expression_statement"]
            ELSE [p |-> IF r.p.peek_token.token_type = SEMICOLON
                        THEN next_token(r.p)
                        ELSE r.p,
                  stmt |-> ExpressionStatement(token, r.expr),
                  panic |-> NoPanic])

(***************************************************************************)
(* The state machine: the test harness registers the rules, then           *)
(* parse_program runs its loop, one statement (or one iteration of a       *)
(* statement's skip loop) per step.                                        *)
(***************************************************************************)
SetParser(p) ==
    /\ lexer' = p.lexer
    /\ current_token' = p.current_token
    /\ peek_token' = p.peek_token
    /\ errors' = p.errors

(* lambda_parsers.register_parsers() on the empty table *)
RegisterParsers ==
    /\ pc = "register"
    /\ lambda_parsers' = register_parsers(lambda_parsers)
    /\ pc' = "parse_program"
    /\ UNCHANGED <<runtime, input, lexer, current_token, peek_token, errors, program,
                   stmt, panic>>

(* parse_program: the loop condition fails, Some(program) is returned *)
ParseProgramReturn ==
    /\ pc = "parse_program"
    /\ current_token.token_type = EOF
    /\ pc' = "returned"
    /\ UNCHANGED <<runtime, input, lexer, current_token, peek_token, errors,
                   lambda_parsers, program, stmt, panic>>

(* parse_program, current token LET: parse_let_statement up to its loop; *)
(* on None the statement is dropped and parse_program advances           *)
ParseLetStatement ==
    /\ pc = "parse_program"
    /\ current_token.token_type = LET_TOKEN
    /\ LET r == parse_let_statement(Self)
       IN  IF r.stmt = None
           THEN /\ SetParser(next_token(r.p))
                /\ UNCHANGED <<pc, stmt>>
           ELSE /\ SetParser(r.p)
                /\ pc' = "let_loop"
                /\ stmt' = r.stmt
    /\ UNCHANGED <<runtime, input, lambda_parsers, program, panic>>

(* one iteration of the while loop of parse_let_statement *)
LetLoopSkip ==
    /\ pc = "let_loop"
    /\ ~(current_token.token_type = SEMICOLON)
    /\ SetParser(next_token(Self))
    /\ UNCHANGED <<runtime, input, lambda_parsers, program, pc, stmt, panic>>

(* the loop ends: Some(LetStatement) is pushed and parse_program advances *)
LetLoopExit ==
    /\ pc = "let_loop"
    /\ current_token.token_type = SEMICOLON
    /\ program' = Append(program, stmt)
    /\ SetParser(next_token(Self))
    /\ pc' = "parse_program"
    /\ stmt' = None
    /\ UNCHANGED <<runtime, input, lambda_parsers, panic>>

(* parse_program, current token RETURN: parse_return_statement up to its loop *)
ParseReturnStatement ==
    /\ pc = "parse_program"
    /\ current_token.token_type = RETURN
    /\ LET r == parse_return_statement(Self)
       IN  /\ SetParser(r.p)
           /\ stmt' = r.stmt
    /\ pc' = "return_loop"
    /\ UNCHANGED <<runtime, input, lambda_parsers, program, panic>>

(* one iteration of the while loop of parse_return_statement *)
ReturnLoopSkip ==
    /\ pc = "return_loop"
    /\ ~(peek_token.token_type = SEMICOLON)
    /\ SetParser(next_token(Self))
    /\ UNCHANGED <<runtime, input, lambda_parsers, program, pc, stmt, panic>>

(* the loop ends: next_token, Some(ReturnStatement) is pushed and *)
(* parse_program advances                                         *)
ReturnLoopExit ==
    /\ pc = "return_loop"
    /\ peek_token.token_type = SEMICOLON
    /\ program' = Append(program, stmt)
    /\ SetParser(next_token(next_token(Self)))
    /\ pc' = "parse_program"
    /\ stmt' = None
    /\ UNCHANGED <<runtime, input, lambda_parsers, panic>>

(* parse_program, any other current token: parse_expression_statement *)
ParseExpressionStatement ==
    /\ pc = "parse_program"
    /\ current_token.token_type \notin {EOF, LET_TOKEN, RETURN}
    /\ \E r \in {parse_expression_statement(Self, lambda_parsers)} :
           IF r.panic # NoPanic
           THEN /\ SetParser(r.p)
                /\ pc' = "panicked"
                /\ panic' = r.panic
                /\ UNCHANGED program
           ELSE /\ program' = Append(program, r.stmt)
                /\ SetParser(next_token(r.p))
                /\ UNCHANGED <<pc, panic>>
    /\ UNCHANGED <<runtime, input, lambda_parsers, stmt>>

(***************************************************************************)
(* The inputs: every token sequence of at most MaxLen tokens over a        *)
(* representative alphabet, operator chains of at most MaxOps infix        *)
(* operators (with an optional prefix operator on one operand), chains of  *)
(* two operators with one parenthesised pair, programs of at most MaxStmts *)
(* statements built from statement templates, and the inputs the tests and *)
(* the documentation name.                                                 *)
(***************************************************************************)
MaxLen == 3

MaxOps == 3

MaxStmts == 2

IdentTok(name) == Token(IDENT, name)

IntTok(digits) == Token(INT, digits)

LetTok == Token(LET_TOKEN, <<"l", "e", "t">>)

ReturnTok == Token(RETURN, <<"r", "e", "t", "u", "r", "n">>)

TrueTok == Token(TRUE_TOKEN, <<"t", "r", "u", "e">>)

FalseTok == Token(FALSE_TOKEN, <<"f", "a", "l", "s", "e">>)

IfTok == Token(IF_TOKEN, <<"i", "f">>)

AssignTok == Token(ASSIGN, <<"=">>)

SemicolonTok == Token(SEMICOLON, <<";">>)

LparenTok == Token(LPAREN, <<"(">>)

RparenTok == Token(RPAREN, <<")">>)

PlusTok == Token(PLUS, <<"+">>)

MinusTok == Token(MINUS, <<"-">>)

AsteriskTok == Token(ASTERISK, <<"*">>)

SlashTok == Token(SLASH, <<"/">>)

LtTok == Token(LT, <<"<">>)

GtTok == Token(GT, <<">">>)

EqTok == Token(EQ, <<"=", "=">>)

NotEqTok == Token(NOT_EQ, <<"!", "=">>)

BangTok == Token(BANG, <<"!">>)

(* an INT literal one past the largest i32 *)
BigInt == IntTok(<<"2", "1", "4", "7", "4", "8", "3", "6", "4", "8">>)

Alphabet ==
    { LetTok, ReturnTok, IdentTok(<<"a">>), IntTok(<<"5">>), BigInt, AssignTok,
      SemicolonTok, PlusTok, AsteriskTok, BangTok, LparenTok, RparenTok,
      IfTok }

ShortInputs == UNION { [1..n -> Alphabet] : n \in 0..MaxLen }

InfixOpToks ==
    { PlusTok, MinusTok, AsteriskTok, SlashTok, LtTok, GtTok, EqTok, NotEqTok }

PrefixOpToks == { BangTok, MinusTok }

OperandNames == <<"a", "b", "c", "d", "e", "f", "g", "h">>

(* the i-th operand of a chain *)
Operand(i) == IdentTok(<<OperandNames[i]>>)

(* x1 op1 x2 ... opk x(k+1) ;  with prefix operator pre on operand q *)
(* (q = 0: on none)                                                  *)
RECURSIVE ChainTokens(_, _, _, _)
ChainTokens(ops, q, pre, i) ==
    LET operand == IF q = i THEN <<pre, Operand(i)>> ELSE <<Operand(i)>>
    IN  IF i > Len(ops)
        THEN operand \o <<SemicolonTok>>
        ELSE operand \o <<ops[i]>> \o ChainTokens(ops, q, pre, i + 1)

ChainInputs ==
    { ChainTokens(ops, q[1], q[2], 1) :
        ops \in UNION { [1..k -> InfixOpToks] : k \in 1..MaxOps },
        q \in (0..(MaxOps + 1)) \X PrefixOpToks }

(* ( a op1 b ) op2 c ;   and   a op1 ( b op2 c ) ; *)
GroupedLeft(op1, op2) ==
    <<LparenTok, Operand(1), op1, Operand(2), RparenTok, op2, Operand(3),
      SemicolonTok>>

GroupedRight(op1, op2) ==
    <<Operand(1), op1, LparenTok, Operand(2), op2, Operand(3), RparenTok,
      SemicolonTok>>

GroupedInputs ==
    { GroupedLeft(o[1], o[2]) : o \in InfixOpToks \X InfixOpToks } \cup
    { GroupedRight(o[1], o[2]) : o \in InfixOpToks \X InfixOpToks }

(* expressions of the language, as token sequences without a semicolon; *)
(* the last one is a call                                               *)
SupportedExpressions ==
    { <<IdentTok(<<"a">>)>>,
      <<IntTok(<<"5">>)>>,
      <<IdentTok(<<"a">>), PlusTok, IntTok(<<"5">>)>>,
      <<MinusTok, IdentTok(<<"a">>)>>,
      <<LparenTok, IdentTok(<<"a">>), RparenTok>> }

CallExpressions ==
    { <<IdentTok(<<"a">>), LparenTok, IntTok(<<"5">>), RparenTok>> }

ExpressionTemplates == SupportedExpressions \cup CallExpressions

LetOf(e) == <<LetTok, IdentTok(<<"x">>), AssignTok>> \o e \o <<SemicolonTok>>

ReturnOf(e) == <<ReturnTok>> \o e \o <<SemicolonTok>>

ExpressionOf(e) == e \o <<SemicolonTok>>

WellFormedStatements ==
    { LetOf(e) : e \in ExpressionTemplates } \cup
    { ReturnOf(e) : e \in ExpressionTemplates } \cup
    { ExpressionOf(e) : e \in ExpressionTemplates }

(* let statements without the name, and without the = *)
MalformedStatements ==
    { <<LetTok, AssignTok, IntTok(<<"5">>), SemicolonTok>>,
      <<LetTok, IdentTok(<<"x">>), IntTok(<<"5">>), SemicolonTok>> }

RECURSIVE Concat(_)
Concat(ss) == IF ss = <<>> THEN <<>> ELSE Head(ss) \o Concat(Tail(ss))

ProgramInputs ==
    { Concat(ss) :
        ss \in UNION { [1..n -> WellFormedStatements \cup MalformedStatements] :
                         n \in 1..MaxStmts } }

(* "(1 + 2) * 3 + 4;" *)
ExampleGrouped ==
    <<LparenTok, IntTok(<<"1">>), PlusTok, IntTok(<<"2">>), RparenTok, AsteriskTok,
      IntTok(<<"3">>), PlusTok, IntTok(<<"4">>), SemicolonTok>>

(* "!true == false;" *)
ExampleBang == <<BangTok, TrueTok, EqTok, FalseTok, SemicolonTok>>

(* "let x = 5; let y = 10; let bebe 101010;" *)
ExampleBrokenLet ==
    <<LetTok, IdentTok(<<"x">>), AssignTok, IntTok(<<"5">>), SemicolonTok,
      LetTok, IdentTok(<<"y">>), AssignTok, IntTok(<<"1", "0">>), SemicolonTok,
      LetTok, IdentTok(<<"b", "e", "b", "e">>),
      IntTok(<<"1", "0", "1", "0", "1", "0">>), SemicolonTok>>

(* "let x = 5" and "return 5", without the semicolon *)
ExampleLetNoSemicolon == <<LetTok, IdentTok(<<"x">>), AssignTok, IntTok(<<"5">>)>>

ExampleReturnNoSemicolon == <<ReturnTok, IntTok(<<"5">>)>>

(* return; 5; *)
ExampleReturnEmpty ==
    <<ReturnTok, SemicolonTok, IntTok(<<"5">>), SemicolonTok>>

ExampleInputs ==
    { ExampleGrouped, ExampleBang, ExampleBrokenLet, ExampleLetNoSemicolon,
      ExampleReturnNoSemicolon, ExampleReturnEmpty }

(***************************************************************************)
(* Runtime objects (src/src/evaluation/object.rs).  An Object is the pair  *)
(* of its variant and the variant's struct.  A String value is the         *)
(* sequence of its characters' code points.                                *)
(***************************************************************************)
Integer(value) == <<"Integer", [value |-> value]>>

Stringl(value) == <<"Stringl", [value |-> value]>>

Array(elements) == <<"Array", [elements |-> elements]>>

BooleanObject(value) == <<"Boolean", [value |-> value]>>

Nil == <<"Nil", [nil |-> "nil"]>>

ReturnValue(value) == <<"ReturnValue", [value |-> value]>>

Error(message) == <<"Error", [message |-> message]>>

Function(parameters, body, env) ==
    <<"Function", [parameters |-> parameters, body |-> body, env |-> env]>>

CoreFunc(name, arity) ==
    <<"CoreFunc", [function_name |-> name, arity |-> arity]>>

(* no Object yet, no built-in named *)
NoObject == <<"none", [none |-> "none"]>>

NoFunction == "none"

(* the character ` of the messages of core/funcs.rs, by its code point *)
Backtick == "U+0060"

(* evaluator::NIL and evaluator::new_error, used by core/funcs.rs *)
NIL == Nil

new_error(message) == Error(message)

object_type(o) ==
    CASE o[1] = "Integer" -> "INTEGER"
      [] o[1] = "Stringl" -> "STRING"
      [] o[1] = "Array" -> "ARRAY"
      [] o[1] = "Boolean" -> "BOOLEAN"
      [] o[1] = "Nil" -> "NULL"
      [] o[1] = "ReturnValue" -> "RETURN_VALUE"
      [] o[1] = "Error" -> "ERROR"
      [] o[1] = "Function" -> "FUNCTION"
      [] o[1] = "CoreFunc" -> "CORE_FUNCTION"

(* a Function eq that compares the fields *)
Function_eq_structural(self, other) == self = other

(* impl PartialEq for Function: never equal *)
Function_eq(self, other) == FALSE

(* == on Objects: derived, variant by variant and field by field, but for *)
(* Function, whose eq is always false                                     *)
RECURSIVE eq(_, _)
eq(self, other) ==
    IF self[1] # other[1]
    THEN FALSE
    ELSE CASE self[1] = "Integer" -> self[2].value = other[2].value
           [] self[1] = "Stringl" -> self[2].value = other[2].value
           [] self[1] = "Array" ->
                /\ Len(self[2].elements) = Len(other[2].elements)
                /\ \A i \in 1..Len(self[2].elements) :
                       eq(self[2].elements[i], other[2].elements[i])
           [] self[1] = "Boolean" -> self[2].value = other[2].value
           [] self[1] = "Nil" -> TRUE
           [] self[1] = "ReturnValue" -> eq(self[2].value, other[2].value)
           [] self[1] = "Error" -> self[2].message = other[2].message
           [] self[1] = "Function" -> Function_eq(self[2], other[2])
           [] self[1] = "CoreFunc" ->
                /\ self[2].function_name = other[2].function_name
                /\ self[2].arity = other[2].arity

(***************************************************************************)
(* Built-in functions (src/src/core/funcs.rs).                             *)
(***************************************************************************)
CORE_REGISTRY ==
    ("length" :> 1) @@ ("first" :> 1) @@ ("last" :> 1) @@ ("rest" :> 1) @@
    ("push" :> 2)

(* Option<Object> *)
Some(o) == [some |-> TRUE, value |-> o]

NoneObject == [some |-> FALSE, value |-> NoObject]

(* a lookup that takes every built-in for a function of one argument *)
try_new_unary(name) ==
    IF name \in DOMAIN CORE_REGISTRY
    THEN Some(CoreFunc(name, 1))
    ELSE NoneObject

(* CoreFunc::try_new *)
try_new(name) ==
    IF name \in DOMAIN CORE_REGISTRY
    THEN Some(CoreFunc(name, CORE_REGISTRY[name]))
    ELSE NoneObject

(* Object::same_tag: one arm per pair of equal variants, none for CoreFunc *)
same_tag(self, other) ==
    CASE self[1] = "Integer" /\ other[1] = "Integer" -> TRUE
      [] self[1] = "Stringl" /\ other[1] = "Stringl" -> TRUE
      [] self[1] = "Array" /\ other[1] = "Array" -> TRUE
      [] self[1] = "Boolean" /\ other[1] = "Boolean" -> TRUE
      [] self[1] = "Nil" /\ other[1] = "Nil" -> TRUE
      [] self[1] = "ReturnValue" /\ other[1] = "ReturnValue" -> TRUE
      [] self[1] = "Error" /\ other[1] = "Error" -> TRUE
      [] self[1] = "Function" /\ other[1] = "Function" -> TRUE
      [] OTHER -> FALSE

(* Arity = u8 *)
U8_MAX == 255

(* usize as u8, usize as i32 *)
as_u8(n) == n % (U8_MAX + 1)

as_i32(n) == IF n <= I32_MAX THEN n ELSE (n - I32_MAX - 1) + I32_MIN

(* a length that counts characters, not bytes *)
len_utf8_char(c) == 1

(* the number of bytes of the UTF-8 encoding of a code point *)
len_utf8(c) ==
    IF c < 128 THEN 1 ELSE IF c < 2048 THEN 2 ELSE IF c < 65536 THEN 3 ELSE 4

(* String::len: the number of bytes of the string *)
RECURSIVE StringLen(_)
StringLen(value) ==
    IF value = <<>> THEN 0 ELSE len_utf8(Head(value)) + StringLen(Tail(value))

length_(str) ==
    CASE str[1] = "Stringl" -> Integer(as_i32(StringLen(str[2].value)))
      [] str[1] = "Array" -> Integer(as_i32(Len(str[2].elements)))
      [] OTHER ->
           new_error(<<"argument to ", Backtick, "length", Backtick,
                       " not supported, got ",
                       object_type(str)>>)

first_(arr) ==
    CASE arr[1] = "Array" ->
           IF Len(arr[2].elements) > 0 THEN arr[2].elements[1] ELSE NIL
      [] OTHER ->
           new_error(<<"argument to ", Backtick, "first", Backtick,
                       " must be array, got ",
                       object_type(arr)>>)

(* a last that takes the element at the front *)
last_front(arr) ==
    CASE arr[1] = "Array" ->
           IF arr[2].elements # <<>> THEN arr[2].elements[1] ELSE NIL
      [] OTHER ->
           new_error(<<"argument to ", Backtick, "last", Backtick,
                       " must be array, got ", object_type(arr)>>)

last_(arr) ==
    CASE arr[1] = "Array" ->
           IF arr[2].elements # <<>>
           THEN arr[2].elements[Len(arr[2].elements)]
           ELSE NIL
      [] OTHER ->
           new_error(<<"argument to ", Backtick, "last", Backtick,
                       " must be array, got ",
                       object_type(arr)>>)

(* a rest that gives Nil for the empty array, as first and last do *)
rest_nil(arr) ==
    CASE arr[1] = "Array" ->
           IF arr[2].elements = <<>> THEN NIL ELSE Array(Tail(arr[2].elements))
      [] OTHER ->
           new_error(<<"argument to ", Backtick, "rest", Backtick,
                       " must be array, got ", object_type(arr)>>)

rest_(arr) ==
    CASE arr[1] = "Array" ->
           Array(IF arr[2].elements = <<>> THEN <<>> ELSE Tail(arr[2].elements))
      [] OTHER ->
           new_error(<<"argument to ", Backtick, "rest", Backtick,
                       " must be array, got ",
                       object_type(arr)>>)

(* a push that puts the element at the front *)
push_front(arr, elem) ==
    CASE arr[1] = "Array" -> Array(<<elem>> \o arr[2].elements)
      [] OTHER ->
           new_error(<<"argument to ", Backtick, "push", Backtick,
                       " must be array, got ", object_type(arr)>>)

push_(arr, elem) ==
    CASE arr[1] = "Array" -> Array(Append(arr[2].elements, elem))
      [] OTHER ->
           new_error(<<"argument to ", Backtick, "push", Backtick,
                       " must be array, got ",
                       object_type(arr)>>)

(* the guard of an arm of call: Some(&(args.len() as u8)) == *)
(* CORE_REGISTRY.get(&function_name)                         *)
(* a guard that lets through every argument list up to the arity *)
ArityMatches_atmost(name, arguments) ==
    /\ name \in DOMAIN CORE_REGISTRY
    /\ as_u8(Len(arguments)) <= CORE_REGISTRY[name]

ArityMatches(name, arguments) ==
    /\ name \in DOMAIN CORE_REGISTRY
    /\ as_u8(Len(arguments)) = CORE_REGISTRY[name]

(* args[i] of a Vec panics for i >= args.len() *)
IndexOutOfBounds ==
    [object |-> NoObject, panic |-> "call: index out of bounds"]

(* call returns an Object, or panics where expect finds no registry entry *)
(* or where an argument is read outside args                              *)
call(name, arguments) ==
    CASE name = "length" /\ ArityMatches(name, arguments) ->
           IF Len(arguments) < 1
           THEN IndexOutOfBounds
           ELSE [object |-> length_(arguments[1]), panic |-> NoPanic]
      [] name = "first" /\ ArityMatches(name, arguments) ->
           IF Len(arguments) < 1
           THEN IndexOutOfBounds
           ELSE [object |-> first_(arguments[1]), panic |-> NoPanic]
      [] name = "last" /\ ArityMatches(name, arguments) ->
           IF Len(arguments) < 1
           THEN IndexOutOfBounds
           ELSE [object |-> last_(arguments[1]), panic |-> NoPanic]
      [] name = "rest" /\ ArityMatches(name, arguments) ->
           IF Len(arguments) < 1
           THEN IndexOutOfBounds
           ELSE [object |-> rest_(arguments[1]), panic |-> NoPanic]
      [] name = "push" /\ ArityMatches(name, arguments) ->
           IF Len(arguments) < 2
           THEN IndexOutOfBounds
           ELSE [object |-> push_(arguments[1], arguments[2]),
                 panic |-> NoPanic]
      [] OTHER ->
           IF name \in DOMAIN CORE_REGISTRY
           THEN [object |->
                    new_error(<<"wrong number of arguments: got=",
                                Len(arguments), ", expected=",
                                CORE_REGISTRY[name]>>),
                 panic |-> NoPanic]
           ELSE [object |-> NoObject,
                 panic |-> "call: Cannot find function in CORE_REGISTRY"]

(***************************************************************************)
(* The evaluator (src/src/evaluation/evaluator.rs).  eval returns an       *)
(* Object, or panics.                                                      *)
(***************************************************************************)
WN_P(prog) == [wn |-> "P", program |-> prog]

WN_S(statement) == [wn |-> "S", statement |-> statement]

WN_E(expression) == [wn |-> "E", expression |-> expression]

Evaluated(o) == [object |-> o, panic |-> NoPanic]

EvalPanicked(site) == [object |-> NoObject, panic |-> site]

(* an arm for IntegerLiteral that drops the literal's value *)
eval_E_default(expression) ==
    CASE expression.node = "IntegerLiteral" -> Evaluated(Integer(0))
      [] expression.node = "Identifier" ->
           EvalPanicked("don't how to handle identifier")
      [] expression.node = "PrefixExpression" ->
           EvalPanicked("don't how to handle prefix expression")
      [] expression.node = "InfixExpression" ->
           EvalPanicked("don't how to handle infix expression")
      [] expression.node = "Boolean" ->
           EvalPanicked("don't how to handle boolean")

(* eval, the arm of WN::E *)
eval_E(expression) ==
    CASE expression.node = "IntegerLiteral" ->
           Evaluated(Integer(expression.value))
      [] expression.node = "Identifier" ->
           EvalPanicked("don't how to handle identifier")
      [] expression.node = "PrefixExpression" ->
           EvalPanicked("don't how to handle prefix expression")
      [] expression.node = "InfixExpression" ->
           EvalPanicked("don't how to handle infix expression")
      [] expression.node = "Boolean" ->
           EvalPanicked("don't how to handle boolean")

RECURSIVE eval(_)

(* statements.into_iter().map(eval).last(): every statement is evaluated, *)
(* in order, and the value of the last one is kept; a panic ends the run  *)
RECURSIVE EvalEach(_, _, _)
EvalEach(statements, i, last) ==
    IF i > Len(statements)
    THEN last
    ELSE Bind(eval(WN_S(statements[i])), LAMBDA r :
             IF r.panic # NoPanic
             THEN r
             ELSE EvalEach(statements, i + 1, r))

(* .last().unwrap(): None, and a panic, when there is no statement *)
eval_statements(statements) ==
    IF statements = <<>>
    THEN EvalPanicked("eval_statements: unwrap on None")
    ELSE EvalEach(statements, 1, Evaluated(NoObject))

eval(node) ==
    CASE node.wn = "P" -> eval_statements(node.program)
      [] node.wn = "S" ->
           (CASE node.statement.node = "ExpressionStatement" ->
                   eval(WN_E(node.statement.expression))
              [] node.statement.node = "LetStatement" ->
                   EvalPanicked("don't know how to handle let statement")
              [] node.statement.node = "ReturnStatement" ->
                   EvalPanicked("don't know how to handle return statement"))
      [] node.wn = "E" -> eval_E(node.expression)

(* run_eval: eval(WN::P(program)) on the Program parse_program returned *)
Eval ==
    /\ pc = "returned"
    /\ \E r \in {eval(WN_P(program))} :
           IF r.panic # NoPanic
           THEN /\ pc' = "eval_panicked"
                /\ panic' = r.panic
                /\ UNCHANGED object
           ELSE /\ pc' = "evaluated"
                /\ object' = r.object
                /\ UNCHANGED panic
    /\ UNCHANGED <<input, lexer, current_token, peek_token, errors,
                   lambda_parsers, program, stmt, function_name, args, equal>>

(* call(function_name, args) *)
Call ==
    /\ pc = "call"
    /\ \E r \in {call(function_name, args)} :
           IF r.panic # NoPanic
           THEN /\ pc' = "panicked"
                /\ panic' = r.panic
                /\ UNCHANGED object
           ELSE /\ pc' = "called"
                /\ object' = r.object
                /\ UNCHANGED panic
    /\ UNCHANGED <<input, lexer, current_token, peek_token, errors,
                   lambda_parsers, program, stmt, function_name, args, equal>>

(* CoreFunc::try_new(function_name) *)
TryNew ==
    /\ pc = "try_new"
    /\ object' = try_new(function_name).value
    /\ pc' = IF try_new(function_name).some THEN "resolved" ELSE "unresolved"
    /\ UNCHANGED <<input, lexer, current_token, peek_token, errors,
                   lambda_parsers, program, stmt, panic, function_name, args,
                   equal>>

(* args[0].same_tag(&args[1]) *)
SameTag ==
    /\ pc = "same_tag"
    /\ equal' = same_tag(args[1], args[2])
    /\ pc' = "tagged"
    /\ UNCHANGED <<input, lexer, current_token, peek_token, errors,
                   lambda_parsers, program, stmt, panic, function_name, args,
                   object>>

(* args[0] == args[1] *)
PartialEq ==
    /\ pc = "eq"
    /\ equal' = eq(args[1], args[2])
    /\ pc' = "compared"
    /\ UNCHANGED <<input, lexer, current_token, peek_token, errors,
                   lambda_parsers, program, stmt, panic, function_name, args,
                   object>>

(***************************************************************************)
(* The specification.                                                      *)
(***************************************************************************)
Init ==
    /\ \/ input \in ShortInputs
       \/ input \in ChainInputs
       \/ input \in GroupedInputs
       \/ input \in ProgramInputs
       \/ input \in ExampleInputs
    /\ lexer = New.lexer
    /\ current_token = New.current_token
    /\ peek_token = New.peek_token
    /\ errors = New.errors
    /\ lambda_parsers = EmptyLambdaParsers
    /\ program = <<>>
    /\ pc = "register"
    /\ stmt = None
    /\ panic = NoPanic
    /\ function_name = NoFunction
    /\ args = <<>>
    /\ object = NoObject
    /\ equal = FALSE

Next ==
    \/ RegisterParsers
    \/ ParseProgramReturn
    \/ ParseLetStatement
    \/ LetLoopSkip
    \/ LetLoopExit
    \/ ParseReturnStatement
    \/ ReturnLoopSkip
    \/ ReturnLoopExit
    \/ ParseExpressionStatement

Spec == Init /\ [][Next]_vars

(***************************************************************************)
(* Evaluation: the sources that are evaluated after they are parsed.       *)
(***************************************************************************)
I32MaxDigits == <<"2", "1", "4", "7", "4", "8", "3", "6", "4", "7">>

IntegerLiterals ==
    { <<"0">>, <<"1">>, <<"2">>, <<"5">>, <<"1", "0">>, <<"0", "0", "7">>,
      I32MaxDigits }

ArithmeticOpToks == { PlusTok, MinusTok, AsteriskTok, SlashTok }

(* "5 + 5 * 2;" and "5 + true;" *)
ExampleNested ==
    <<IntTok(<<"5">>), PlusTok, IntTok(<<"5">>), AsteriskTok, IntTok(<<"2">>),
      SemicolonTok>>

ExampleMismatch == <<IntTok(<<"5">>), PlusTok, TrueTok, SemicolonTok>>

LiteralStatements == { <<IntTok(d), SemicolonTok>> : d \in IntegerLiterals }

ArithmeticStatements ==
    { <<IntTok(a), op, IntTok(<<"2">>), SemicolonTok>> :
        a \in { <<"5">>, <<"7">> }, op \in ArithmeticOpToks }

EvalStatements ==
    LiteralStatements \cup ArithmeticStatements \cup
    { ExampleNested, ExampleMismatch, LetOf(<<IntTok(<<"5">>)>>),
      ReturnOf(<<IntTok(<<"5">>), PlusTok, IntTok(<<"2">>)>>) }

EvalInputs ==
    { Concat(ss) :
        ss \in UNION { [1..n -> EvalStatements] : n \in 0..MaxStmts } } \cup
    { <<IntTok(d)>> : d \in IntegerLiterals }

InitEval ==
    /\ input \in EvalInputs
    /\ lexer = New.lexer
    /\ current_token = New.current_token
    /\ peek_token = New.peek_token
    /\ errors = New.errors
    /\ lambda_parsers = EmptyLambdaParsers
    /\ program = <<>>
    /\ pc = "register"
    /\ stmt = None
    /\ panic = NoPanic
    /\ function_name = NoFunction
    /\ args = <<>>
    /\ object = NoObject
    /\ equal = FALSE

NextEval ==
    \/ Next
    \/ Eval

SpecEval == InitEval /\ [][NextEval]_vars

(***************************************************************************)
(* Objects: the arguments of the built-in functions and of ==.             *)
(***************************************************************************)
MaxElems == 2

MaxArgs == 3

(* "hello"; U+00E9 (2 bytes); U+65E5 U+1F600 (3 and 4 bytes) *)
Hello == <<104, 101, 108, 108, 111>>

F1 == Function(<<>>, "body1", "env")

F2 == Function(<<"x">>, "body2", "env")

ScalarObjects ==
    { Integer(1), Integer(2), Stringl(<<>>), Stringl(Hello), Stringl(<<233>>),
      Stringl(<<26085, 128512>>), BooleanObject(TRUE), BooleanObject(FALSE),
      NIL, Error(<<"e">>), F1, F2, CoreFunc("length", 1), CoreFunc("push", 2),
      ReturnValue(Integer(1)), ReturnValue(F1) }

ElementObjects == { Integer(1), Integer(2), Stringl(Hello), F1, NIL }

ArrayObjects ==
    { Array(elements) :
        elements \in UNION { [1..n -> ElementObjects] : n \in 0..MaxElems } }
    \cup { Array(<<Array(<<Integer(1)>>)>>), Array(<<Array(<<F1>>)>>) }

Objects == ScalarObjects \cup ArrayObjects

OtherArguments == { Integer(2), Array(<<Integer(1)>>), F1 }

(* N arguments, N < 256 *)
ArgumentLists ==
    { <<>> } \cup
    { <<x>> \o more :
        x \in Objects,
        more \in UNION { [1..n -> OtherArguments] : n \in 0..(MaxArgs - 1) } }

(* 256 + n arguments *)
LongArgumentLists ==
    { [i \in 1..(U8_MAX + 1 + n) |-> x] :
        n \in 0..MaxArgs, x \in { Array(<<Integer(1)>>), Integer(2) } }

FunctionNames == DOMAIN CORE_REGISTRY \cup { "unknown" }

(* names to resolve: the registered ones and some that are not *)
ResolvedNames ==
    FunctionNames \cup { "", "len", "Length", "length_", "puts", "pop" }

InitObject ==
    /\ input = <<>>
    /\ lexer = New.lexer
    /\ current_token = New.current_token
    /\ peek_token = New.peek_token
    /\ errors = New.errors
    /\ lambda_parsers = EmptyLambdaParsers
    /\ program = <<>>
    /\ stmt = None
    /\ panic = NoPanic
    /\ object = NoObject
    /\ equal = FALSE
    /\ \/ /\ pc = "call"
          /\ function_name \in FunctionNames
          /\ \/ args \in ArgumentLists
             \/ args \in LongArgumentLists
       \/ /\ pc \in {"eq", "same_tag"}
          /\ function_name = NoFunction
          /\ args \in Objects \X Objects
       \/ /\ pc = "try_new"
          /\ function_name \in ResolvedNames
          /\ args = <<>>

NextObject ==
    \/ Call
    \/ PartialEq
    \/ TryNew
    \/ SameTag

SpecObject == InitObject /\ [][NextObject]_vars

(***************************************************************************)
(* Properties.                                                             *)
(***************************************************************************)
Terminated == pc \in {"returned", "panicked"}

(* every INT literal of the input fits in an i32 *)
IntLiteralsFit ==
    \A i \in 1..Len(input) :
        input[i].token_type = INT => ParseI32(input[i].literal).ok

(* C1: on a token stream whose INT literals fit in an i32, parse_program *)
(* never aborts: malformed input only adds messages to errors.           *)
C1_NeverAborts == IntLiteralsFit => pc # "panicked"

(* C2: parse_program terminates: a run that has not ended (returned, or  *)
(* aborted) can always take a step that changes the parser's state, so   *)
(* no loop of it spins on an exhausted lexer.                            *)
C2_Terminates == Terminated \/ ENABLED <<Next>>_vars

ExpectedMessage(expected, got) ==
    <<"expected next token to be ", expected, ", got ", got, " instead">>

(* the token the lexer will deliver next: the one after the peek token *)
TokenAfterPeek == LexerNextToken(lexer).token

(* parse_program is about to parse a let statement whose name is missing *)
LetWithoutName ==
    /\ pc = "parse_program"
    /\ current_token.token_type = LET_TOKEN
    /\ peek_token.token_type # IDENT

(* ... or whose name is not followed by = *)
LetWithoutAssign ==
    /\ pc = "parse_program"
    /\ current_token.token_type = LET_TOKEN
    /\ peek_token.token_type = IDENT
    /\ TokenAfterPeek.token_type # ASSIGN

(* the step from such a state: one message with the offending token's  *)
(* kind, no statement appended, and parse_program is back at its loop  *)
(* with the offending token as the current token                       *)
LetErrorStep ==
    /\ LetWithoutName =>
        /\ errors' = Append(errors,
                            ExpectedMessage(IDENT, peek_token.token_type))
        /\ program' = program
        /\ pc' = "parse_program"
        /\ current_token' = peek_token
    /\ LetWithoutAssign =>
        /\ errors' = Append(errors,
                            ExpectedMessage(ASSIGN, TokenAfterPeek.token_type))
        /\ program' = program
        /\ pc' = "parse_program"
        /\ current_token' = TokenAfterPeek

(* "let x 5;" *)
LetX5 == <<LetTok, IdentTok(<<"x">>), IntTok(<<"5">>), SemicolonTok>>

(* C3: a let statement without its name, or without = after the name,    *)
(* appends exactly one "expected next token to be E, got G instead" (G    *)
(* the kind of the peek token at that moment), appends no statement,      *)
(* keeps the statements collected so far, and parse_program goes on from  *)
(* the next token; for "let x 5;" the one error is "expected next token   *)
(* to be =, got INT instead".                                             *)
C3_LetErrors ==
    /\ [][LetErrorStep]_vars
    /\ []((input = LetX5 /\ Terminated) =>
            /\ pc = "returned"
            /\ errors = <<ExpectedMessage("=", "INT")>>
            /\ \A i \in DOMAIN program : program[i].node # "LetStatement")

(* the broken test input has been parsed: its two let statements are kept, *)
(* the third gave the one error and parsing went on with 101010            *)
C3_Witness ==
    /\ input = ExampleBrokenLet
    /\ pc = "returned"
    /\ errors = <<ExpectedMessage("=", "INT")>>
    /\ Len(program) = 3
    /\ program[1].node = "LetStatement"
    /\ program[2].node = "LetStatement"
    /\ program[3].node = "ExpressionStatement"

(* the statements of a source: its runs of tokens up to a SEMICOLON each, *)
(* and what follows the last SEMICOLON, if anything                       *)
RECURSIVE SplitAt(_, _, _)
SplitAt(s, i, cur) ==
    IF i > Len(s)
    THEN IF cur = <<>> THEN <<>> ELSE <<cur>>
    ELSE IF s[i].token_type = SEMICOLON
    THEN <<Append(cur, s[i])>> \o SplitAt(s, i + 1, <<>>)
    ELSE SplitAt(s, i + 1, Append(cur, s[i]))

SourceStatements(s) == SplitAt(s, 1, <<>>)

(* every statement of the source is one of the statements in S *)
MadeOf(s, S) ==
    /\ SourceStatements(s) # <<>>
    /\ \A i \in DOMAIN SourceStatements(s) : SourceStatements(s)[i] \in S

StatementKind(first) ==
    IF first.token_type = LET_TOKEN THEN "LetStatement"
    ELSE IF first.token_type = RETURN THEN "ReturnStatement"
    ELSE "ExpressionStatement"

(* the Program has one statement per statement of the source, in source *)
(* order and of the kind its first token selects, and no error          *)
ParsedAsWritten ==
    /\ pc = "returned"
    /\ errors = <<>>
    /\ Len(program) = Len(SourceStatements(input))
    /\ \A i \in DOMAIN program :
        /\ program[i].node = StatementKind(SourceStatements(input)[i][1])
        /\ program[i].token = SourceStatements(input)[i][1]

(* C4: a source of N well-formed statements, each ended by a semicolon, *)
(* parses to exactly N statements, in order, of the kind the first      *)
(* token selects, with no error.                                        *)
C4_WellFormedSource ==
    (MadeOf(input, WellFormedStatements) /\ Terminated) => ParsedAsWritten

SupportedStatements ==
    { LetOf(e) : e \in SupportedExpressions } \cup
    { ReturnOf(e) : e \in SupportedExpressions } \cup
    { ExpressionOf(e) : e \in SupportedExpressions }

(* the same, for statements without a call expression *)
SupportedSourceParsedAsWritten ==
    (MadeOf(input, SupportedStatements) /\ Terminated) => ParsedAsWritten

(***************************************************************************)
(* The expected trees, built from the tokens without the parser.           *)
(***************************************************************************)
OperandTypes == {IDENT, INT, TRUE_TOKEN, FALSE_TOKEN}

InfixTypes == {PLUS, MINUS, SLASH, ASTERISK, EQ, NOT_EQ, LT, GT}

PrefixTypes == {BANG, MINUS}

(* the level of an infix operator, as documented *)
Level(token_type) ==
    CASE token_type \in {EQ, NOT_EQ} -> EQUALS
      [] token_type \in {LT, GT} -> LESSGREATER
      [] token_type \in {PLUS, MINUS} -> SUM
      [] token_type \in {ASTERISK, SLASH} -> PRODUCT

Leaf(token) ==
    CASE token.token_type = IDENT -> Identifier(token)
      [] token.token_type = INT ->
            IntegerLiteral(token, ParseI32(token.literal).value)
      [] token.token_type \in {TRUE_TOKEN, FALSE_TOKEN} ->
            Boolean(token, token.token_type = TRUE_TOKEN)

Pre(op, right) == PrefixExpression(op, op.literal, right)

Bin(left, op, right) == InfixExpression(op, left, op.literal, right)

TokenAt(s, i) == IF i \in 1..Len(s) THEN s[i] ELSE EofToken

(* an operand at position i of s: prefix operators, then an identifier, *)
(* an integer in range or a boolean; next is the position after it      *)
RECURSIVE OperandAt(_, _)
OperandAt(s, i) ==
    LET t == TokenAt(s, i)
    IN  IF t.token_type \in PrefixTypes
        THEN LET r == OperandAt(s, i + 1)
             IN  [ok |-> r.ok, expr |-> Pre(t, r.expr), next |-> r.next]
        ELSE IF /\ t.token_type \in OperandTypes
                /\ t.token_type = INT => ParseI32(t.literal).ok
        THEN [ok |-> TRUE, expr |-> Leaf(t), next |-> i + 1]
        ELSE [ok |-> FALSE, expr |-> None, next |-> i]

(* a chain  x1 op1 x2 ... opk x(k+1) ;  from position i to the end of s: *)
(* its operands (as trees) and its operators (as tokens)                 *)
RECURSIVE ChainAt(_, _)
ChainAt(s, i) ==
    LET x == OperandAt(s, i)
        t == TokenAt(s, x.next)
    IN  IF ~x.ok
        THEN [ok |-> FALSE, operands |-> <<>>, ops |-> <<>>]
        ELSE IF t.token_type = SEMICOLON /\ x.next = Len(s)
        THEN [ok |-> TRUE, operands |-> <<x.expr>>, ops |-> <<>>]
        ELSE IF t.token_type \in InfixTypes
        THEN LET rest == ChainAt(s, x.next + 1)
             IN  [ok |-> rest.ok,
                  operands |-> <<x.expr>> \o rest.operands,
                  ops |-> <<t>> \o rest.ops]
        ELSE [ok |-> FALSE, operands |-> <<>>, ops |-> <<>>]

Chain(s) == ChainAt(s, 1)

(* the one expression statement a source of one expression parses to *)
ParsedTo(expr) ==
    /\ pc = "returned"
    /\ errors = <<>>
    /\ program = <<ExpressionStatement(input[1], expr)>>

(* x1 op1 x2 op2 x3 with operators of different levels: the higher-level *)
(* operator takes x2                                                     *)
TwoLevels(c) ==
    IF Level(c.ops[1].token_type) < Level(c.ops[2].token_type)
    THEN Bin(c.operands[1], c.ops[1],
             Bin(c.operands[2], c.ops[2], c.operands[3]))
    ELSE Bin(Bin(c.operands[1], c.ops[1], c.operands[2]), c.ops[2],
             c.operands[3])

(* (((1 + 2) * 3) + 4) *)
ExampleGroupedTree ==
    Bin(Bin(Bin(Leaf(IntTok(<<"1">>)), PlusTok, Leaf(IntTok(<<"2">>))),
            AsteriskTok, Leaf(IntTok(<<"3">>))),
        PlusTok, Leaf(IntTok(<<"4">>)))

(* ((!true) == false) *)
ExampleBangTree == Bin(Pre(BangTok, Leaf(TrueTok)), EqTok, Leaf(FalseTok))

(* C5: the tree follows the levels EQUALS < LESSGREATER < SUM < PRODUCT <  *)
(* PREFIX: of two adjacent infix operators of different levels the higher  *)
(* one takes the shared operand, whatever their order; a prefix operator   *)
(* takes just its operand; a parenthesised sub-expression is one operand.  *)
C5_PrecedenceShape ==
    Terminated =>
        /\ \A c \in { Chain(input) } :
            /\ (/\ c.ok
                /\ Len(c.ops) = 2
                /\ Level(c.ops[1].token_type) # Level(c.ops[2].token_type))
               => ParsedTo(TwoLevels(c))
            /\ (c.ok /\ Len(c.ops) = 1)
               => ParsedTo(Bin(c.operands[1], c.ops[1], c.operands[2]))
        /\ input \in GroupedInputs =>
            \A op1 \in InfixOpToks, op2 \in InfixOpToks :
                /\ input = GroupedLeft(op1, op2) =>
                    ParsedTo(Bin(Bin(Leaf(Operand(1)), op1, Leaf(Operand(2))),
                                 op2, Leaf(Operand(3))))
                /\ input = GroupedRight(op1, op2) =>
                    ParsedTo(Bin(Leaf(Operand(1)), op1,
                                 Bin(Leaf(Operand(2)), op2, Leaf(Operand(3)))))
        /\ input = ExampleGrouped => ParsedTo(ExampleGroupedTree)
        /\ input = ExampleBang => ParsedTo(ExampleBangTree)

(* "-a * b;" has been parsed to ((-a) * b) *)
C5_Witness ==
    /\ input = <<MinusTok, Operand(1), AsteriskTok, Operand(2), SemicolonTok>>
    /\ ParsedTo(Bin(Pre(MinusTok, Leaf(Operand(1))), AsteriskTok,
                    Leaf(Operand(2))))

(* (((x1 op1 x2) op2 x3) ... opk x(k+1)) *)
RECURSIVE LeftNested(_, _, _)
LeftNested(operands, ops, k) ==
    IF k = 0
    THEN operands[1]
    ELSE Bin(LeftNested(operands, ops, k - 1), ops[k], operands[k + 1])

SameLevel(ops) ==
    \A i \in DOMAIN ops, j \in DOMAIN ops :
        Level(ops[i].token_type) = Level(ops[j].token_type)

(* C6: a chain of infix operators of one level parses to the left-nested *)
(* tree.                                                                 *)
C6_LeftAssociative ==
    Terminated =>
        \A c \in { Chain(input) } :
            (c.ok /\ Len(c.ops) >= 2 /\ SameLevel(c.ops))
            => ParsedTo(LeftNested(c.operands, c.ops, Len(c.ops)))

(* "a - b + c;" has been parsed to ((a - b) + c) *)
C6_Witness ==
    /\ input = <<Operand(1), MinusTok, Operand(2), PlusTok, Operand(3),
                 SemicolonTok>>
    /\ ParsedTo(Bin(Bin(Leaf(Operand(1)), MinusTok, Leaf(Operand(2))),
                    PlusTok, Leaf(Operand(3))))

(* the expression of a source statement "let NAME = EXPR ;", as tokens *)
LetExpression(statement) == SubSeq(statement, 4, Len(statement) - 1)

IsLetSource(statement) ==
    /\ Len(statement) >= 5
    /\ statement[1].token_type = LET_TOKEN
    /\ statement[2].token_type = IDENT
    /\ statement[3].token_type = ASSIGN

(* C7: "let NAME = EXPR;" yields Let{name, value} with name NAME and value *)
(* the expression EXPR parses to: the name is the source's, and two let    *)
(* statements whose right-hand sides are different operands hold different *)
(* values.                                                                 *)
C7_LetValue ==
    (/\ pc = "returned"
     /\ MadeOf(input, WellFormedStatements)
     /\ Len(program) = Len(SourceStatements(input)))
    => \A i \in DOMAIN program, j \in DOMAIN program :
        LET si == SourceStatements(input)[i]
            sj == SourceStatements(input)[j]
        IN  (/\ IsLetSource(si)
             /\ IsLetSource(sj)
             /\ Len(LetExpression(si)) = 1
             /\ Len(LetExpression(sj)) = 1
             /\ LetExpression(si) # LetExpression(sj))
            => /\ program[i].name.value = si[2].literal
               /\ program[i].value # program[j].value

(* the parser with token i of the input as its current token *)
ParserAt(i, errs) ==
    Parser(IF i + 1 < Len(input) THEN i + 1 ELSE Len(input),
           TokenAt(input, i), TokenAt(input, i + 1), errs)

NoPrefixMessage(token_type) ==
    <<"no prefix parser found for ", token_type, " token">>

(* C8: parse_expression entered on a token of a kind K without a prefix   *)
(* rule appends exactly "no prefix parser found for K token", returns     *)
(* none and consumes no token, at every position of the input and every   *)
(* precedence.                                                            *)
C8_NoPrefixRule ==
    \A i \in 1..(Len(input) + 2) :
        \A p \in { ParserAt(i, errors) } :
            p.current_token.token_type \notin DOMAIN lambda_parsers.prefix_parse_fns
            => \A precedence \in LOWEST..PREFIX :
                \A r \in { parse_expression(p, lambda_parsers, precedence) } :
                    /\ r.panic = NoPanic
                    /\ r.expr = None
                    /\ r.p.errors =
                          Append(errors,
                                 NoPrefixMessage(p.current_token.token_type))
                    /\ r.p.current_token = p.current_token
                    /\ r.p.peek_token = p.peek_token
                    /\ r.p.lexer = p.lexer

(* parse_expression has run on ")" with the rules registered: the one   *)
(* message is there and ")" is still the current token                  *)
C8_Witness ==
    /\ input = <<RparenTok, IdentTok(<<"a">>)>>
    /\ pc = "panicked"
    /\ panic = "parse_expression_statement"
    /\ errors = <<NoPrefixMessage(RPAREN)>>
    /\ current_token = RparenTok
    /\ peek_token = IdentTok(<<"a">>)

(* C9: after register_parsers the table holds a prefix rule for exactly *)
(* IDENT, INT, STRING, TRUE, FALSE, BANG, MINUS, LPAREN, LBRACKET, IF   *)
(* and FN, and an infix rule for exactly PLUS, MINUS, SLASH, ASTERISK,  *)
(* EQ, NOT_EQ, LT, GT, LPAREN and LBRACKET.                             *)
C9_CompleteRuleSet ==
    pc # "register" =>
        /\ DOMAIN lambda_parsers.prefix_parse_fns =
              { IDENT, INT, STRING_TOKEN, TRUE_TOKEN, FALSE_TOKEN, BANG, MINUS,
                LPAREN, LBRACKET, IF_TOKEN, FUNCTION }
        /\ DOMAIN lambda_parsers.infix_parse_fns =
              { PLUS, MINUS, SLASH, ASTERISK, EQ, NOT_EQ, LT, GT, LPAREN,
                LBRACKET }

(* the level the documentation gives each token kind *)
DocumentedPrecedence(token_type) ==
    CASE token_type \in {EQ, NOT_EQ} -> EQUALS
      [] token_type \in {LT, GT} -> LESSGREATER
      [] token_type \in {PLUS, MINUS} -> SUM
      [] token_type \in {ASTERISK, SLASH} -> PRODUCT
      [] token_type = LPAREN -> CALL
      [] token_type = LBRACKET -> INDEX
      [] OTHER -> LOWEST

(* C10: the precedence lookup gives EQUALS for == and !=, LESSGREATER for *)
(* < and >, SUM for + and -, PRODUCT for * and /, CALL for (, INDEX for [ *)
(* and LOWEST for every other kind: checked on the tokens the parser      *)
(* holds and on every kind.                                               *)
C10_PrecedenceLookup ==
    /\ precedence_by_token_type(current_token.token_type) =
           DocumentedPrecedence(current_token.token_type)
    /\ precedence_by_token_type(peek_token.token_type) =
           DocumentedPrecedence(peek_token.token_type)
    /\ \A token_type \in TokenType :
           precedence_by_token_type(token_type) =
               DocumentedPrecedence(token_type)

(***************************************************************************)
(* Properties of the built-in functions and of the objects (SpecObject).   *)
(***************************************************************************)
Called == pc = "called" /\ function_name \in DOMAIN CORE_REGISTRY

WrongNumberOfArguments(got, expected) ==
    Error(<<"wrong number of arguments: got=", got, ", expected=", expected>>)

(* what the named implementation returns on the arguments *)
Implementation(name, arguments) ==
    CASE name = "length" -> length_(arguments[1])
      [] name = "first" -> first_(arguments[1])
      [] name = "last" -> last_(arguments[1])
      [] name = "rest" -> rest_(arguments[1])
      [] name = "push" -> push_(arguments[1], arguments[2])

(* C11: call(name, args) with N arguments dispatches to the named          *)
(* implementation only when N is the registered arity A; for every other   *)
(* N, 256 and more included, it returns the Error "wrong number of         *)
(* arguments: got=N, expected=A".                                          *)
C11_ArityChecked ==
    Called =>
        IF Len(args) = CORE_REGISTRY[function_name]
        THEN object = Implementation(function_name, args)
        ELSE object = WrongNumberOfArguments(Len(args),
                                             CORE_REGISTRY[function_name])

(* the same for fewer than 256 arguments *)
ArityCheckedBelow256 ==
    (Called /\ Len(args) <= U8_MAX) => C11_ArityChecked

(* the built-in name has been called with its registered number of args *)
CalledWith(name, n) == Called /\ function_name = name /\ Len(args) = n

IsArray(o) == o[1] = "Array"

MustBeArray(name, o) ==
    Error(<<"argument to ", Backtick, name, Backtick, " must be array, got ",
            object_type(o)>>)

(* b = push(a, e): b is a followed by e, and a still has its length *)
Pushed ==
    CalledWith("push", 2) =>
        IF IsArray(args[1])
        THEN /\ IsArray(object)
             /\ object[2].elements = args[1][2].elements \o <<args[2]>>
             /\ Len(object[2].elements) = Len(args[1][2].elements) + 1
             /\ length_(object) = Integer(Len(args[1][2].elements) + 1)
             /\ length_(args[1]) = Integer(Len(args[1][2].elements))
        ELSE object = MustBeArray("push", args[1])

(* C12: push(array, elem) returns a new Array, the elements of array in  *)
(* order followed by elem, and leaves array as it was; on a first        *)
(* argument that is no Array it returns the Error "argument to `push`    *)
(* must be array, got TYPE", whatever the second argument.               *)
C12_Push == []Pushed /\ [][args' = args]_vars

(* let a = [1]; let b = push(a, 2): length(a) is 1 and length(b) is 2 *)
C12_Witness ==
    /\ CalledWith("push", 2)
    /\ args = <<Array(<<Integer(1)>>), Integer(2)>>
    /\ object = Array(<<Integer(1), Integer(2)>>)
    /\ length_(args[1]) = Integer(1)
    /\ length_(object) = Integer(2)

(* C13: length(x) is Integer(number of UTF-8 bytes) of a String (5 for  *)
(* "hello", 0 for the empty string, 2 for U+00E9, 3 + 4 for U+65E5      *)
(* U+1F600), Integer(number of elements) of an Array, and the Error     *)
(* "argument to `length` not supported, got TYPE" of any other value.   *)
C13_Length ==
    CalledWith("length", 1) =>
        CASE args[1][1] = "Stringl" ->
               /\ object[1] = "Integer"
               /\ object[2].value >= Len(args[1][2].value)
               /\ args[1] = Stringl(<<>>) => object = Integer(0)
               /\ args[1] = Stringl(Hello) => object = Integer(5)
               /\ args[1] = Stringl(<<233>>) => object = Integer(2)
               /\ args[1] = Stringl(<<26085, 128512>>) => object = Integer(7)
          [] IsArray(args[1]) ->
               object = Integer(Cardinality(DOMAIN args[1][2].elements))
          [] OTHER ->
               object = Error(<<"argument to ", Backtick, "length", Backtick,
                                " not supported, got ", object_type(args[1])>>)

(* length of the two-character string U+65E5 U+1F600 is 7 *)
C13_Witness ==
    /\ CalledWith("length", 1)
    /\ args = <<Stringl(<<26085, 128512>>)>>
    /\ object = Integer(7)

(* C14: first(a) is element 0 and last(a) the final element of a        *)
(* non-empty Array, both are Nil for the empty Array and the same        *)
(* element for an Array of one element; on a non-Array they return the   *)
(* Errors "argument to `first` must be array, got TYPE" and "argument to *)
(* `last` must be array, got TYPE".                                      *)
C14_FirstLast ==
    /\ CalledWith("first", 1) =>
        IF IsArray(args[1])
        THEN IF args[1][2].elements = <<>>
             THEN object = Nil
             ELSE /\ object = Head(args[1][2].elements)
                  /\ Len(args[1][2].elements) = 1 => object = last_(args[1])
        ELSE object = MustBeArray("first", args[1])
    /\ CalledWith("last", 1) =>
        IF IsArray(args[1])
        THEN IF args[1][2].elements = <<>>
             THEN object = Nil
             ELSE /\ object = args[1][2].elements[Len(args[1][2].elements)]
                  /\ Len(args[1][2].elements) = 1 => object = first_(args[1])
        ELSE object = MustBeArray("last", args[1])

(* last([1, 2]) is 2 *)
C14_Witness ==
    /\ CalledWith("last", 1)
    /\ args = <<Array(<<Integer(1), Integer(2)>>)>>
    /\ object = Integer(2)

Rested ==
    CalledWith("rest", 1) =>
        IF IsArray(args[1])
        THEN /\ IsArray(object)
             /\ object[2].elements =
                    SubSeq(args[1][2].elements, 2, Len(args[1][2].elements))
             /\ args[1][2].elements # <<>> =>
                    Len(object[2].elements) = Len(args[1][2].elements) - 1
             /\ args[1][2].elements = <<>> => object = Array(<<>>)
        ELSE object = MustBeArray("rest", args[1])

(* C15: rest(a) is a new Array, the elements of a but the first, in     *)
(* order; the empty Array for the empty Array; a is left as it was; on  *)
(* a non-Array it returns the Error "argument to `rest` must be array,  *)
(* got TYPE".                                                           *)
C15_Rest == []Rested /\ [][pc = "call" => args' = args]_vars

(* rest([]) is [] *)
C15_Witness ==
    /\ CalledWith("rest", 1)
    /\ args = <<Array(<<>>)>>
    /\ object = Array(<<>>)
    /\ object # Nil

(* the object is, or holds at any depth, a Function *)
RECURSIVE ContainsFunction(_)
ContainsFunction(o) ==
    CASE o[1] = "Function" -> TRUE
      [] o[1] = "Array" ->
           \E i \in 1..Len(o[2].elements) : ContainsFunction(o[2].elements[i])
      [] o[1] = "ReturnValue" -> ContainsFunction(o[2].value)
      [] OTHER -> FALSE

(* C16: two Objects are equal exactly when they are the same variant   *)
(* with the same value (Arrays: the same length and equal elements;    *)
(* Nil only Nil) and hold no Function: a Function equals no value, not *)
(* even itself, and so neither does an Array or ReturnValue holding    *)
(* one.                                                                *)
C16_Equality ==
    pc = "compared" =>
        /\ equal = (args[1] = args[2] /\ ~ContainsFunction(args[1]))
        /\ args[1][1] # args[2][1] => ~equal
        /\ ContainsFunction(args[1]) \/ ContainsFunction(args[2]) => ~equal

(* [f] == [f] is false *)
C16_Witness ==
    /\ pc = "compared"
    /\ args = <<Array(<<F1>>), Array(<<F1>>)>>
    /\ ~equal

(***************************************************************************)
(* Properties of the evaluator (SpecEval).                                 *)
(***************************************************************************)
(* the run of parser and evaluator has ended: a value, or an abort *)
EvalEnded == pc \in {"evaluated", "eval_panicked", "panicked"}

DecimalDigits == <<"0", "1", "2", "3", "4", "5", "6", "7", "8", "9">>

(* the number a string of decimal digits denotes *)
RECURSIVE Decimal(_)
Decimal(digits) ==
    IF digits = <<>>
    THEN 0
    ELSE Decimal(SubSeq(digits, 1, Len(digits) - 1)) * 10 +
         (CHOOSE d \in 0..9 : DecimalDigits[d + 1] = digits[Len(digits)])

(* the source is one integer literal, with or without its semicolon *)
SingleLiteral ==
    /\ Len(input) \in {1, 2}
    /\ input[1].token_type = INT
    /\ Len(input) = 2 => input[2] = SemicolonTok

(* C17: evaluating a program that is a single integer literal n returns *)
(* Integer(n), up to the largest i32.                                   *)
C17_IntegerLiteral ==
    (SingleLiteral /\ EvalEnded) =>
        /\ pc = "evaluated"
        /\ object = Integer(Decimal(input[1].literal))

(* "2147483647;" has evaluated to Integer(2147483647) *)
C17_Witness ==
    /\ input = <<IntTok(I32MaxDigits), SemicolonTok>>
    /\ pc = "evaluated"
    /\ object = Integer(I32_MAX)

(* the source is made of integer literal statements only, or of nothing *)
LiteralsOnly ==
    \A i \in DOMAIN SourceStatements(input) :
        SourceStatements(input)[i] \in LiteralStatements

LastLiteral == SourceStatements(input)[Len(SourceStatements(input))][1]

(* C18: eval of a Program returns the value of its last statement, and *)
(* Nil for a Program with no statements.                               *)
C18_ProgramValue ==
    (LiteralsOnly /\ EvalEnded) =>
        /\ pc = "evaluated"
        /\ object = IF input = <<>>
                    THEN Nil
                    ELSE Integer(Decimal(LastLiteral.literal))

(* the same for a Program with at least one statement *)
NonEmptyProgramValue == input # <<>> => C18_ProgramValue

(* integer division truncating toward zero *)
Quotient(a, b) ==
    LET Abs(x) == IF x < 0 THEN -x ELSE x
        q == Abs(a) \div Abs(b)
    IN  IF (a < 0) = (b < 0) THEN q ELSE -q

Arithmetic(a, op, b) ==
    CASE op = PLUS -> a + b
      [] op = MINUS -> a - b
      [] op = ASTERISK -> a * b
      [] op = SLASH -> Quotient(a, b)

(* C19: eval of "a OP b" for OP in + - * / returns Integer(a OP b), the *)
(* division truncating toward zero, and "5 + 5 * 2" gives Integer(15).  *)
C19_Arithmetic ==
    EvalEnded =>
        /\ input \in ArithmeticStatements =>
            /\ pc = "evaluated"
            /\ object = Integer(Arithmetic(Decimal(input[1].literal),
                                           input[2].token_type,
                                           Decimal(input[3].literal)))
        /\ input = ExampleNested =>
            /\ pc = "evaluated"
            /\ object = Integer(15)

(* C20: eval of an infix expression whose operands have different types *)
(* returns the Error "type mismatch: LTYPE OP RTYPE", and that Error is *)
(* the program's value: "5 + true" gives Error("type mismatch: INTEGER  *)
(* + BOOLEAN"); the evaluator does not abort.                           *)
C20_TypeMismatch ==
    (input = ExampleMismatch /\ EvalEnded) =>
        /\ pc = "evaluated"
        /\ object = Error(<<"type mismatch: ", "INTEGER", " ", "+", " ",
                            "BOOLEAN">>)

(* C21: CoreFunc::try_new(name) returns the built-in function object with    *)
(* that name and its registered arity (length 1, first 1, last 1, rest 1,    *)
(* push 2) exactly when name is one of the five registered names, and        *)
(* nothing for every other name.                                             *)
C21_TryNew ==
    /\ pc = "resolved" =>
        /\ function_name \in {"length", "first", "last", "rest", "push"}
        /\ object = CoreFunc(function_name,
                             IF function_name = "push" THEN 2 ELSE 1)
    /\ pc = "unresolved" =>
        /\ function_name \notin {"length", "first", "last", "rest", "push"}
        /\ object = NoObject

(* push has been resolved to the built-in of arity 2 *)
C21_Witness ==
    /\ pc = "resolved"
    /\ function_name = "push"
    /\ object = CoreFunc("push", 2)

(* index of the first SEMICOLON of the source after position i, 0 if none *)
RECURSIVE FirstSemicolonAfter(_)
FirstSemicolonAfter(i) ==
    IF i >= Len(input) THEN 0
    ELSE IF input[i + 1].token_type = SEMICOLON THEN i + 1
    ELSE FirstSemicolonAfter(i + 1)

(* parse_return_statement, called on a RETURN that opens the source, leaves  *)
(* its loop: the SEMICOLON in peek_token, at index lexer of the source, is   *)
(* the current token on return                                               *)
FirstReturnLeaves ==
    /\ pc = "return_loop"
    /\ peek_token.token_type = SEMICOLON
    /\ program = <<>>
    /\ input # <<>>
    /\ input[1].token_type = RETURN

(* C22: parse_return_statement consumes RETURN, the tokens of its            *)
(* expression and at most one semicolon: when a SEMICOLON follows the        *)
(* RETURN token, the current token on return is the first such SEMICOLON,    *)
(* so the statement after a return statement (also after return;) is parsed  *)
(* as a statement of its own; return; 5; yields the return statement and     *)
(* the expression statement 5.                                               *)
C22_ReturnStatement ==
    /\ FirstReturnLeaves => lexer = FirstSemicolonAfter(1)
    /\ (pc = "returned" /\ input = ExampleReturnEmpty) =>
        /\ Len(program) = 2
        /\ program[1] = ReturnStatement(ReturnTok, Dumb)
        /\ program[2].node = "ExpressionStatement"

(* with a token between RETURN and the first SEMICOLON the parser does stop  *)
(* on that SEMICOLON                                                         *)
ReturnWithExpression ==
    (FirstReturnLeaves /\ TokenAt(input, 2).token_type # SEMICOLON)
        => lexer = FirstSemicolonAfter(1)

(* C23: every token kind whose precedence is above LOWEST has an infix rule  *)
(* registered, so in the loop of parse_expression the infix lookup never     *)
(* fails once the loop condition held: the abort for a missing infix         *)
(* function is never reached.                                                *)
C23_InfixLookup ==
    /\ pc # "register" =>
           \A token_type \in TokenType :
               precedence_by_token_type(token_type) > LOWEST
                   => token_type \in DOMAIN lambda_parsers.infix_parse_fns
    /\ panic # "parse_expression: no infix function"

(* a > b; went through the loop: the rule for GT was found and applied *)
C23_Witness ==
    /\ input = <<Operand(1), GtTok, Operand(2), SemicolonTok>>
    /\ GT \in DOMAIN lambda_parsers.infix_parse_fns
    /\ ParsedTo(Bin(Leaf(Operand(1)), GtTok, Leaf(Operand(2))))

(* the variant of an object *)
Variant(o) == o[1]

(* same_tag has answered for the pair args *)
Tagged == pc = "tagged"

(* C24: same_tag(a, b) is true if and only if a and b are the same variant   *)
(* of Object, for all nine variants (the built-in function among them),      *)
(* whatever the payloads; it is symmetric, and same_tag(a, a) is true for    *)
(* every a.                                                                  *)
C24_SameTag ==
    Tagged =>
        /\ equal = (Variant(args[1]) = Variant(args[2]))
        /\ equal = same_tag(args[2], args[1])
        /\ same_tag(args[1], args[1])

(* apart from the built-in functions, same_tag compares the variants *)
SameTagButCoreFunc ==
    (Tagged /\ ~(Variant(args[1]) = "CoreFunc" /\ Variant(args[2]) = "CoreFunc"))
        => equal = (Variant(args[1]) = Variant(args[2]))

(* same_tag is symmetric *)
SameTagSymmetric == Tagged => equal = same_tag(args[2], args[1])

(* the nine variants of Object *)
ObjectVariants ==
    { "Integer", "Stringl", "Array", "Boolean", "Nil", "ReturnValue", "Error",
      "Function", "CoreFunc" }

(* call has ended, with a value or with an abort, on a registered name *)
CallEnded ==
    /\ pc \in {"called", "panicked"}
    /\ function_name \in DOMAIN CORE_REGISTRY

(* C25: call(name, args) is total on registered names: for every name of     *)
(* the registry and every argument list, of any length and any kinds of      *)
(* values, it returns an Object (a result or an Error) and never aborts; no  *)
(* argument is read at a position outside the argument list.                 *)
C25_CallTotal ==
    CallEnded =>
        /\ pc = "called"
        /\ panic = NoPanic
        /\ Variant(object) \in ObjectVariants

(* push returned an Error for the empty argument list *)
C25_Witness ==
    /\ pc = "called"
    /\ function_name = "push"
    /\ args = <<>>
    /\ panic = NoPanic
    /\ Variant(object) = "Error"

====
